---- MODULE Spec2Model ----
(***************************************************************************)
(* State machine of the App component (src/App.tsx) and of the two remote  *)
(* operations it awaits (src/geminiservice.ts).                            *)
(*                                                                         *)
(* Texts are sequences of one-character strings, so that trim, substring   *)
(* and JSON.parse are computed character by character.  A nullable value   *)
(* is a sequence of length at most one: null is << >>, a present value v   *)
(* is <<v>>.  A React handler reads the state of the render it was created *)
(* in: an event handler reads the current state, the continuation of an    *)
(* await reads the values captured when the handler was invoked, and a     *)
(* functional update (setX(prev => ...)) reads the current state.          *)
(***************************************************************************)
EXTENDS Integers, Sequences, FiniteSets, TLC

VARIABLES
    inputs,             \* DocumentInputs                       App.tsx:11
    savedData,          \* SavedData                            App.tsx:19
    state,              \* GenerationState                      App.tsx:25
    history,            \* HistoryItem[]                        App.tsx:34
    feedbackText,       \* string                               App.tsx:37
    isRevising,         \* boolean                              App.tsx:38
    previousVersion,    \* string | null                        App.tsx:39
    showFeedbackInput,  \* boolean                              App.tsx:40
    apiKey,             \* process.env.API_KEY            geminiservice.ts:4
    now,                \* the reading of Date.now()
    genCalls,           \* handleGenerate invocations awaiting generateDocument
    revCalls,           \* handleRevise invocations awaiting reviseDocument
    started,            \* number of remote operations started so far
    last,               \* the operation that produced this state
    trip,               \* the revision round trip being followed
    store               \* localStorage: the two records  App.tsx:44-61

vars == <<inputs, savedData, state, history, feedbackText, isRevising,
          previousVersion, showFeedbackInput, apiKey, now, genCalls, revCalls,
          started, last, trip, store>>

----------------------------------------------------------------------------
(* Bounds of the model *)

MaxStarted == 2
MaxClock == 1
MaxBrief == 1
MaxText == 3
MaxRace == 3
MaxStored == 2

(* Program constants *)

HistoryCap == 10
SummaryLen == 50

----------------------------------------------------------------------------
(* Values *)

null == << >>
Some(v) == <<v>>

LETTER == "LETTER"
MINUTES == "MINUTES"
DocumentType == {LETTER, MINUTES}

WhiteSpace == {" ", "\t", "\n"}
Quote == "q"

Min(a, b) == IF a < b THEN a ELSE b

\* JavaScript truthiness of a string | null value
TruthyText(opt) == opt # null /\ opt[1] # << >>

\* a || b on strings
OrElse(a, b) == IF a # "" THEN a ELSE b

RECURSIVE trimStart(_)
trimStart(s) ==
    IF s # << >> /\ Head(s) \in WhiteSpace THEN trimStart(Tail(s)) ELSE s

RECURSIVE trimEnd(_)
trimEnd(s) ==
    IF s # << >> /\ s[Len(s)] \in WhiteSpace
    THEN trimEnd(SubSeq(s, 1, Len(s) - 1))
    ELSE s

trim(s) == trimEnd(trimStart(s))

\* s.substring(0, n)
substring(s, n) == SubSeq(s, 1, Min(n, Len(s)))

\* arr.slice(0, n)
slice(arr, n) == SubSeq(arr, 1, Min(n, Len(arr)))

includes(arr, v) == \E i \in 1..Len(arr) : arr[i] = v

RECURSIVE filterNot(_, _)
filterNot(arr, v) ==
    IF arr = << >> THEN << >>
    ELSE IF Head(arr) # v THEN <<Head(arr)>> \o filterNot(Tail(arr), v)
    ELSE filterNot(Tail(arr), v)

RemoveAt(seq, i) == SubSeq(seq, 1, i - 1) \o SubSeq(seq, i + 1, Len(seq))

\* Number.prototype.toString(): the decimal digits
Digit(d) == <<"0", "1", "2", "3", "4", "5", "6", "7", "8", "9">>[d + 1]

RECURSIVE toString(_)
toString(n) ==
    IF n < 10 THEN <<Digit(n)>> ELSE toString(n \div 10) \o <<Digit(n % 10)>>

----------------------------------------------------------------------------
(* JSON.parse and JSON.stringify on the texts a response and the store   *)
(* carry: double-quoted strings (written with the character Quote, with   *)
(* backslash escapes), non-negative integers, arrays and objects.  A      *)
(* parsed string is its characters, a parsed number its value, a parsed   *)
(* array the sequence of its elements and a parsed object the sequence of *)
(* its <<key, value>> members.                                            *)

Backslash == "\\"

RECURSIVE SkipWs(_, _)
SkipWs(s, i) ==
    IF i <= Len(s) /\ s[i] \in WhiteSpace THEN SkipWs(s, i + 1) ELSE i

ParseFail ==
    [ok |-> FALSE, isArray |-> FALSE, kind |-> "none", val |-> << >>, next |-> 0]

\* the characters of a string literal from position i, after its opening
\* quote, up to its closing quote
RECURSIVE ReadString(_, _, _)
ReadString(s, i, acc) ==
    IF i > Len(s) \/ s[i] \in {"\t", "\n"} THEN ParseFail
    ELSE IF s[i] = Quote
         THEN [ok |-> TRUE, isArray |-> FALSE, kind |-> "string", val |-> acc,
               next |-> i + 1]
    ELSE IF s[i] = Backslash
         THEN IF i + 1 > Len(s) THEN ParseFail
              ELSE IF s[i + 1] \in {Quote, Backslash}
                   THEN ReadString(s, i + 2, Append(acc, s[i + 1]))
              ELSE IF s[i + 1] = "n" THEN ReadString(s, i + 2, Append(acc, "\n"))
              ELSE IF s[i + 1] = "t" THEN ReadString(s, i + 2, Append(acc, "\t"))
              ELSE ParseFail
    ELSE ReadString(s, i + 1, Append(acc, s[i]))

Digits == <<"0", "1", "2", "3", "4", "5", "6", "7", "8", "9">>

IsDigit(c) == \E d \in 1..10 : Digits[d] = c

DigitValue(c) == (CHOOSE d \in 1..10 : Digits[d] = c) - 1

\* the digits of a number from position i; a number does not start with 0
\* unless it is 0
RECURSIVE ReadNumber(_, _, _)
ReadNumber(s, i, acc) ==
    IF i <= Len(s) /\ IsDigit(s[i])
    THEN ReadNumber(s, i + 1, acc * 10 + DigitValue(s[i]))
    ELSE [ok |-> TRUE, isArray |-> FALSE, kind |-> "number", val |-> acc,
          next |-> i]

RECURSIVE ParseValue(_, _), ParseElems(_, _, _), ParseMembers(_, _, _)
ParseValue(s, i) ==
    IF i > Len(s) THEN ParseFail
    ELSE IF s[i] = Quote THEN ReadString(s, i + 1, << >>)
    ELSE IF s[i] = "[" THEN
        LET k == SkipWs(s, i + 1) IN
        IF k <= Len(s) /\ s[k] = "]"
        THEN [ok |-> TRUE, isArray |-> TRUE, kind |-> "array", val |-> << >>,
              next |-> k + 1]
        ELSE ParseElems(s, k, << >>)
    ELSE IF s[i] = "{" THEN
        LET k == SkipWs(s, i + 1) IN
        IF k <= Len(s) /\ s[k] = "}"
        THEN [ok |-> TRUE, isArray |-> FALSE, kind |-> "object", val |-> << >>,
              next |-> k + 1]
        ELSE ParseMembers(s, k, << >>)
    ELSE IF IsDigit(s[i]) THEN
        IF s[i] = "0" /\ i < Len(s) /\ IsDigit(s[i + 1]) THEN ParseFail
        ELSE ReadNumber(s, i, 0)
    ELSE ParseFail

ParseElems(s, i, acc) ==
    LET r == ParseValue(s, i) IN
    IF ~r.ok THEN ParseFail
    ELSE LET k == SkipWs(s, r.next) IN
         IF k > Len(s) THEN ParseFail
         ELSE IF s[k] = "," THEN ParseElems(s, SkipWs(s, k + 1), Append(acc, r.val))
         ELSE IF s[k] = "]"
              THEN [ok |-> TRUE, isArray |-> TRUE, kind |-> "array",
                    val |-> Append(acc, r.val), next |-> k + 1]
         ELSE ParseFail

ParseMembers(s, i, acc) ==
    IF i > Len(s) \/ s[i] # Quote THEN ParseFail
    ELSE LET key == ReadString(s, i + 1, << >>) IN
         IF ~key.ok THEN ParseFail
         ELSE LET c == SkipWs(s, key.next) IN
              IF c > Len(s) \/ s[c] # ":" THEN ParseFail
              ELSE LET r == ParseValue(s, SkipWs(s, c + 1)) IN
                   IF ~r.ok THEN ParseFail
                   ELSE LET k == SkipWs(s, r.next)
                            members == Append(acc, <<key.val, r.val>>)
                        IN  IF k > Len(s) THEN ParseFail
                            ELSE IF s[k] = ","
                                 THEN ParseMembers(s, SkipWs(s, k + 1), members)
                            ELSE IF s[k] = "}"
                                 THEN [ok |-> TRUE, isArray |-> FALSE,
                                       kind |-> "object", val |-> members,
                                       next |-> k + 1]
                            ELSE ParseFail

\* JSON.parse(text): ok = FALSE stands for the SyntaxError it throws
JSONparse(text) ==
    LET r == ParseValue(text, SkipWs(text, 1)) IN
    IF r.ok /\ SkipWs(text, r.next) > Len(text) THEN r ELSE ParseFail

\* JSON.stringify of a string: quoted, with its quotes, backslashes and
\* control characters escaped
RECURSIVE Escape(_)
\* characters written as they are; a text made of them needs no escape
Plain == {"a", "b", "f", "r", "s", "x", "y", "z", " ", ".", "[", "]", "{", "}",
          "0", "1", "2", "3", "4", "5", "6", "7", "8", "9"}

Escape(t) ==
    IF t \in Seq(Plain) THEN t
    ELSE (IF Head(t) \in {Quote, Backslash} THEN <<Backslash, Head(t)>>
          ELSE IF Head(t) = "\n" THEN <<Backslash, "n">>
          ELSE IF Head(t) = "\t" THEN <<Backslash, "t">>
          ELSE <<Head(t)>>) \o Escape(Tail(t))

\* a string quoted without its escapes
stringifyStringRaw(t) == <<Quote>> \o t \o <<Quote>>

stringifyString(t) == <<Quote>> \o Escape(t) \o <<Quote>>

\* the texts of a sequence joined by commas
RECURSIVE Join(_)
Join(texts) ==
    IF texts = << >> THEN << >>
    ELSE IF Len(texts) = 1 THEN texts[1]
    ELSE texts[1] \o <<",">> \o Join(Tail(texts))

stringifyArray(texts) == <<"[">> \o Join(texts) \o <<"]">>

\* members is a sequence of <<key, stringified value>>
stringifyObject(members) ==
    <<"{">> \o Join([k \in 1..Len(members) |->
                        stringifyString(members[k][1]) \o <<":">> \o members[k][2]])
           \o <<"}">>

\* the value of the last member of a parsed object with this key
Member(members, key) ==
    LET ks == {k \in 1..Len(members) : members[k][1] = key}
    IN  members[CHOOSE k \in ks : \A j \in ks : j <= k][2]

----------------------------------------------------------------------------
(* The remote operations (src/geminiservice.ts).  A response of             *)
(* ai.models.generateContent either rejects with an error whose message    *)
(* may be empty, or resolves with a text that may be absent.               *)

NoKeyMsg == "API_KEY_NOT_FOUND"              \* geminiservice.ts:50, 134
NoResponseMsg == "NO_RESPONSE_TRY_AGAIN"     \* geminiservice.ts:119
ConnectionMsg == "AI_CONNECTION_ERROR"       \* geminiservice.ts:124
NoRevisionMsg == "NO_RESPONSE"               \* geminiservice.ts:173
RevisionMsg == "REVISION_ERROR"              \* geminiservice.ts:177
GenerateFallbackMsg == "AN_ERROR_OCCURRED"   \* App.tsx:113
ReviseFallbackMsg == "ERROR_EDITING_TEXT"    \* App.tsx:144

Reject(m) == [kind |-> "reject", message |-> m, text |-> null]
Resolve(t) == [kind |-> "resolve", message |-> "", text |-> t]

Return(v) == [ok |-> TRUE, value |-> v, message |-> ""]
Throw(m) == [ok |-> FALSE, value |-> << >>, message |-> m]

\* the body of the try block written without the fallback to the raw text
ParseResponseStrict(response) ==
    IF TruthyText(response.text) THEN
        LET parsed == JSONparse(response.text[1]) IN
        IF parsed.ok /\ parsed.isArray /\ Len(parsed.val) > 0
        THEN Return(parsed.val)
        ELSE Throw(NoResponseMsg)
    ELSE Throw(NoResponseMsg)

\* lines 106-120: what the body of the try block does with a response
ParseResponse(response) ==
    IF TruthyText(response.text) THEN
        LET parsed == JSONparse(response.text[1]) IN
        IF parsed.ok /\ parsed.isArray /\ Len(parsed.val) > 0
        THEN Return(parsed.val)
        ELSE Return(<<response.text[1]>>)
    ELSE Throw(NoResponseMsg)

\* lines 122-125: the catch block rethrows with the message or the fallback
Rethrow(r, fallback) == IF r.ok THEN r ELSE Throw(OrElse(r.message, fallback))

\* generateDocument with the test of the key made after the request
generateDocumentKeyLate(key, response) ==
    IF response.kind = "reject"
    THEN Rethrow(Throw(response.message), ConnectionMsg)
    ELSE IF ~key THEN Throw(NoKeyMsg)
         ELSE Rethrow(ParseResponse(response), ConnectionMsg)

\* generateDocument once its request has settled with `response`;
\* key = FALSE is the throw of line 50, before any request
generateDocument(key, response) ==
    IF ~key THEN Throw(NoKeyMsg)
    ELSE IF response.kind = "reject"
         THEN Rethrow(Throw(response.message), ConnectionMsg)
         ELSE Rethrow(ParseResponse(response), ConnectionMsg)

\* reviseDocument once its request has settled with `response`
reviseDocument(key, response) ==
    IF ~key THEN Throw(NoKeyMsg)
    ELSE IF response.kind = "reject"
         THEN Rethrow(Throw(response.message), RevisionMsg)
         ELSE IF TruthyText(response.text)
              THEN Return(response.text[1])
              ELSE Rethrow(Throw(NoRevisionMsg), RevisionMsg)

----------------------------------------------------------------------------
(* Values the environment supplies: what the user types and what the       *)
(* remote model answers.                                                   *)

Q == Quote
TwoTexts == <<"[", Q, "a", Q, ",", Q, "b", Q, "]">>   \* ["a","b"]

Bodies == {<< >>, <<"a">>}
Feedbacks == {<< >>, <<"f">>}
GenResponses == {Reject("NET"), Resolve(Some(TwoTexts))}
RevResponses == {Reject(""), Resolve(Some(<<"r">>))}

----------------------------------------------------------------------------
(* State of the component *)

\* useState initial values, lines 11-40
InitialInputs ==
    [recipientName |-> << >>, recipientRole |-> << >>, subject |-> << >>, body |-> << >>]

InitialState ==
    [isLoading |-> FALSE, error |-> null, results |-> << >>, selectedIndex |-> 0,
     type |-> null]

LoadingState(type) ==
    [isLoading |-> TRUE, error |-> null, results |-> << >>, selectedIndex |-> 0,
     type |-> Some(type)]

ReadyState(results, type) ==
    [isLoading |-> FALSE, error |-> null, results |-> results, selectedIndex |-> 0,
     type |-> Some(type)]

\* the failure branch written without clearing the type
FailedStateKeepsType(message) ==
    [isLoading |-> FALSE, error |-> Some(OrElse(message, GenerateFallbackMsg)),
     results |-> << >>, selectedIndex |-> 0, type |-> state.type]

FailedState(message) ==
    [isLoading |-> FALSE, error |-> Some(OrElse(message, GenerateFallbackMsg)),
     results |-> << >>, selectedIndex |-> 0, type |-> null]

\* A history a previous session left in the store, newest first: n items
\* added at the clock readings n, n-1, ..., 1
StoredItem(t) ==
    [id |-> toString(t), originalText |-> <<"s">>, generatedText |-> <<"a">>,
     type |-> LETTER, timestamp |-> t]

StoredHistory(n) == [k \in 1..n |-> StoredItem(n + 1 - k)]

\* JSON.stringify and JSON.parse of the two stored records
idKey == <<"i", "d">>
originalTextKey == <<"o", "r", "i", "g", "i", "n", "a", "l", "T", "e", "x", "t">>
generatedTextKey == <<"g", "e", "n", "e", "r", "a", "t", "e", "d", "T", "e", "x", "t">>
typeKey == <<"t", "y", "p", "e">>
timestampKey == <<"t", "i", "m", "e", "s", "t", "a", "m", "p">>
recipientsKey == <<"r", "e", "c", "i", "p", "i", "e", "n", "t", "s">>
subjectsKey == <<"s", "u", "b", "j", "e", "c", "t", "s">>

\* the values of the enum DocumentType (types.ts:1-4)
LetterName == <<"L", "E", "T", "T", "E", "R">>
MinutesName == <<"M", "I", "N", "U", "T", "E", "S">>

\* the name of a property as JSON.stringify writes it
memberName(key) == stringifyString(key) \o <<":">>

idMember == <<"{">> \o memberName(idKey)
originalTextMember == <<",">> \o memberName(originalTextKey)
generatedTextMember == <<",">> \o memberName(generatedTextKey)
typeLetterMember == <<",">> \o memberName(typeKey) \o stringifyString(LetterName)
typeMinutesMember == <<",">> \o memberName(typeKey) \o stringifyString(MinutesName)
timestampMember == <<",">> \o memberName(timestampKey)

stringifyItem(item) ==
    idMember \o stringifyString(item.id)
    \o originalTextMember \o stringifyString(item.originalText)
    \o generatedTextMember \o stringifyString(item.generatedText)
    \o (IF item.type = LETTER THEN typeLetterMember ELSE typeMinutesMember)
    \o timestampMember \o toString(item.timestamp) \o <<"}">>

stringifyHistory(h) == stringifyArray([k \in 1..Len(h) |-> stringifyItem(h[k])])

stringifySaved(d) ==
    stringifyObject(<<
        <<recipientsKey, stringifyArray([k \in 1..Len(d.recipients) |->
                                            stringifyString(d.recipients[k])])>>,
        <<subjectsKey, stringifyArray([k \in 1..Len(d.subjects) |->
                                          stringifyString(d.subjects[k])])>> >>)

\* the history and the saved lists a parsed record is
itemOf(members) ==
    [id |-> Member(members, idKey),
     originalText |-> Member(members, originalTextKey),
     generatedText |-> Member(members, generatedTextKey),
     type |-> IF Member(members, typeKey) = LetterName THEN LETTER ELSE MINUTES,
     timestamp |-> Member(members, timestampKey)]

historyOf(val) == [k \in 1..Len(val) |-> itemOf(val[k])]

savedDataOf(members) ==
    [recipients |-> Member(members, recipientsKey),
     subjects |-> Member(members, subjectsKey)]

\* lines 56-58 and 60-62: the effects that follow a change of history and
\* of savedData
persistHistory(st, h) ==
    [st EXCEPT !.nevisandeh_history = Some(stringifyHistory(h))]

persistSaved(st, d) ==
    [st EXCEPT !.nevisandeh_saved_items = Some(stringifySaved(d))]

\* the session starts after the newest stored item was added
StartClock == HistoryCap + 1
ClockEnd == StartClock + MaxClock


\* No handler is between its invocation and the rejection of a call that
\* was never sent: that continuation runs before any other event.  No
\* handler runs before the effects of the first renders have run.
Settled ==
    /\ \A i \in 1..Len(genCalls) : genCalls[i].sent
    /\ \A i \in 1..Len(revCalls) : revCalls[i].sent
    /\ last \notin {"cold", "mounted"}

\* histories: the histories a previous session may have left in the store
InitFrom(histories) ==
    /\ inputs = InitialInputs
    /\ savedData = [recipients |-> << >>, subjects |-> << >>]
    /\ state = InitialState
    /\ history \in histories
    /\ feedbackText = << >>
    /\ isRevising = FALSE
    /\ previousVersion = null
    /\ showFeedbackInput = FALSE
    /\ apiKey \in BOOLEAN
    /\ now = StartClock
    /\ genCalls = << >>
    /\ revCalls = << >>
    /\ started = 0
    /\ last = "init"
    /\ trip = [phase |-> "none", base |-> << >>, accepted |-> FALSE]
    /\ store = [nevisandeh_history |-> Some(stringifyHistory(history)),
                nevisandeh_saved_items |-> Some(stringifySaved(savedData))]

Init == InitFrom({<< >>, StoredHistory(HistoryCap)})

\* a session that starts with a short history
InitFew == InitFrom({<< >>, StoredHistory(MaxStored)})

----------------------------------------------------------------------------
(* Helpers of the handlers *)

\* line 215
isFormValid == Len(trim(inputs.body)) > 0 \/ Len(trim(inputs.subject)) > 0

\* lines 121-124; an index outside the array reads undefined, falsy like null
getCurrentResult ==
    IF Len(state.results) = 0 THEN null
    ELSE IF state.selectedIndex < Len(state.results)
         THEN Some(state.results[state.selectedIndex + 1])
         ELSE null

\* the holes an assignment past the end of an array leaves
Undefined == <<"undefined">>

\* lines 127-128: a copy of the results the closure holds, with the entry
\* at the selected index the closure holds replaced
updateCurrentResult(results, selectedIndex, newText) ==
    IF selectedIndex < Len(results)
    THEN [results EXCEPT ![selectedIndex + 1] = newText]
    ELSE results \o [k \in 1..(selectedIndex - Len(results)) |-> Undefined]
                 \o <<newText>>

\* the summary written with the test of line 95 (a blank subject skipped)
summaryTextSkipsBlank(inp) ==
    IF trim(inp.subject) # << >> THEN inp.subject
    ELSE substring(inp.body, SummaryLen) \o <<".", ".", ".">>

\* line 108
summaryText(inp) ==
    IF inp.subject # << >> THEN inp.subject
    ELSE substring(inp.body, SummaryLen) \o <<".", ".", ".">>

\* the history written without the cap of line 72
addToHistoryUncapped(prev, original, generated, type, t1, t2) ==
    <<[id |-> toString(t1), originalText |-> original,
       generatedText |-> generated, type |-> type, timestamp |-> t2]>> \o prev

\* lines 64-73, with the two readings of Date.now()
addToHistory(prev, original, generated, type, t1, t2) ==
    slice(<<[id |-> toString(t1), originalText |-> original,
             generatedText |-> generated, type |-> type, timestamp |-> t2]>>
          \o prev, HistoryCap)

\* conditions of the rendered controls
OutputRendered == Len(state.results) > 0                          \* line 416
GenerateEnabled == ~state.isLoading /\ ~isRevising /\ isFormValid \* 366, 377
BodyEnabled == ~(state.isLoading \/ isRevising)                   \* line 354
TabsRendered == Len(state.results) > 1                            \* line 421
ReviewRendered == OutputRendered /\ TruthyText(previousVersion)   \* line 488
FeedbackRendered ==                                               \* 478, 506
    OutputRendered /\ showFeedbackInput /\ ~TruthyText(previousVersion)
AskRendered ==                                                    \* line 478
    OutputRendered /\ ~showFeedbackInput /\ ~TruthyText(previousVersion)
ReviseEnabled == FeedbackRendered /\ trim(feedbackText) # << >>   \* line 516

ResetTrip == [trip EXCEPT !.phase = "none", !.base = << >>]

----------------------------------------------------------------------------
(* Handlers *)

\* lines 75-77; the textarea of the body is disabled by line 354
handleInputChange(field, value) ==
    /\ Settled
    /\ field = "body" => BodyEnabled
    /\ inputs[field] # value
    /\ inputs' = [inputs EXCEPT ![field] = value]
    /\ last' = "input"
    /\ trip' = ResetTrip
    /\ UNCHANGED <<savedData, state, history, feedbackText, isRevising,
                   previousVersion, showFeedbackInput, apiKey, now, genCalls,
                   revCalls, started, store>>

\* handleGenerate with the reset of the revision made before the test of
\* line 95
handleGenerateResetsFirst(type) ==
    /\ Settled
    /\ previousVersion' = null
    /\ showFeedbackInput' = FALSE
    /\ feedbackText' = << >>
    /\ IF trim(inputs.body) = << >> /\ trim(inputs.subject) = << >>
       THEN /\ last' = "generateIgnored"
            /\ UNCHANGED <<state, genCalls, started>>
       ELSE /\ state' = LoadingState(type)
            /\ genCalls' = Append(genCalls,
                   [inputs |-> inputs, type |-> type, sent |-> apiKey])
            /\ started' = started + 1
            /\ last' = "generate"
    /\ trip' = ResetTrip
    /\ UNCHANGED <<inputs, savedData, history, isRevising, apiKey, now, revCalls,
                   store>>

\* lines 94-102: up to the await
handleGenerate(type) ==
    /\ Settled
    /\ IF trim(inputs.body) = << >> /\ trim(inputs.subject) = << >>
       THEN /\ last' = "generateIgnored"
            /\ UNCHANGED <<state, feedbackText, previousVersion,
                           showFeedbackInput, genCalls, started>>
       ELSE /\ previousVersion' = null
            /\ showFeedbackInput' = FALSE
            /\ feedbackText' = << >>
            /\ state' = LoadingState(type)
            /\ genCalls' = Append(genCalls,
                   [inputs |-> inputs, type |-> type, sent |-> apiKey])
            /\ started' = started + 1
            /\ last' = "generate"
    /\ trip' = ResetTrip
    /\ UNCHANGED <<inputs, savedData, history, isRevising, apiKey, now, revCalls,
                   store>>

\* lines 105-118: the continuation of the await, for the outstanding
\* invocation i whose request settled with `response`
generateSettled(i, response) ==
    /\ i \in 1..Len(genCalls)
    /\ LET call == genCalls[i]
           out == generateDocument(call.sent, response)
       IN  /\ IF out.ok
              THEN \E t1 \in now..Min(now + 1, ClockEnd) :
                   \E t2 \in t1..Min(t1 + 1, ClockEnd) :
                      /\ state' = ReadyState(out.value, call.type)
                      /\ history' = addToHistory(history, summaryText(call.inputs),
                                                 out.value[1], call.type, t1, t2)
                      /\ now' = t2
                      /\ store' = persistHistory(store, history')
              ELSE /\ state' = FailedState(out.message)
                   /\ UNCHANGED <<history, now, store>>
           /\ last' = IF out.ok THEN "generateResolved" ELSE "generateRejected"
    /\ genCalls' = RemoveAt(genCalls, i)
    /\ trip' = ResetTrip
    /\ UNCHANGED <<inputs, savedData, feedbackText, isRevising, previousVersion,
                   showFeedbackInput, apiKey, revCalls, started>>

\* selecting written with the reset of the feedback
selectVariationResets(idx) ==
    /\ Settled
    /\ TabsRendered
    /\ idx \in 0..(Len(state.results) - 1)
    /\ state' = [state EXCEPT !.selectedIndex = idx]
    /\ feedbackText' = << >>
    /\ last' = "select"
    /\ trip' = IF trip.phase = "revised" THEN trip ELSE ResetTrip
    /\ UNCHANGED <<inputs, savedData, history, isRevising,
                   previousVersion, showFeedbackInput, apiKey, now, genCalls,
                   revCalls, started, store>>

\* line 426
selectVariation(idx) ==
    /\ Settled
    /\ TabsRendered
    /\ idx \in 0..(Len(state.results) - 1)
    /\ state' = [state EXCEPT !.selectedIndex = idx]
    /\ last' = "select"
    /\ trip' = IF trip.phase = "revised" THEN trip ELSE ResetTrip
    /\ UNCHANGED <<inputs, savedData, history, feedbackText, isRevising,
                   previousVersion, showFeedbackInput, apiKey, now, genCalls,
                   revCalls, started, store>>

\* line 480
askForRevision ==
    /\ Settled
    /\ AskRendered
    /\ showFeedbackInput' = TRUE
    /\ last' = "ask"
    /\ trip' = ResetTrip
    /\ UNCHANGED <<inputs, savedData, state, history, feedbackText, isRevising,
                   previousVersion, apiKey, now, genCalls, revCalls, started,
                   store>>

\* lines 523-526
closeFeedback ==
    /\ Settled
    /\ FeedbackRendered
    /\ showFeedbackInput' = FALSE
    /\ feedbackText' = << >>
    /\ last' = "close"
    /\ trip' = ResetTrip
    /\ UNCHANGED <<inputs, savedData, state, history, isRevising,
                   previousVersion, apiKey, now, genCalls, revCalls, started,
                   store>>

\* line 509
setFeedbackText(value) ==
    /\ Settled
    /\ FeedbackRendered
    /\ feedbackText # value
    /\ feedbackText' = value
    /\ last' = "feedback"
    /\ trip' = ResetTrip
    /\ UNCHANGED <<inputs, savedData, state, history, isRevising,
                   previousVersion, showFeedbackInput, apiKey, now, genCalls,
                   revCalls, started, store>>

\* handleRevise written without the test of the feedback
handleReviseAnyFeedback ==
    /\ Settled
    /\ LET current == getCurrentResult IN
       IF ~TruthyText(current) \/ state.type = null
       THEN /\ last' = "reviseIgnored"
            /\ trip' = ResetTrip
            /\ UNCHANGED <<isRevising, previousVersion, revCalls, started>>
       ELSE LET call == [results |-> state.results,
                         selectedIndex |-> state.selectedIndex,
                         current |-> current[1], feedback |-> feedbackText,
                         type |-> state.type[1], sent |-> apiKey]
            IN  /\ isRevising' = TRUE
                /\ previousVersion' = current
                /\ revCalls' = Append(revCalls, call)
                /\ started' = started + 1
                /\ last' = "revise"
                /\ trip' = [phase |-> "none", base |-> << >>,
                            accepted |-> FALSE]
    /\ UNCHANGED <<inputs, savedData, state, history, feedbackText,
                   showFeedbackInput, apiKey, now, genCalls, store>>

\* lines 132-137: up to the await
handleRevise ==
    /\ Settled
    /\ LET current == getCurrentResult IN
       IF ~TruthyText(current) \/ state.type = null \/ trim(feedbackText) = << >>
       THEN /\ last' = "reviseIgnored"
            /\ trip' = ResetTrip
            /\ UNCHANGED <<isRevising, previousVersion, revCalls, started>>
       ELSE LET call == [results |-> state.results,
                         selectedIndex |-> state.selectedIndex,
                         current |-> current[1], feedback |-> feedbackText,
                         type |-> state.type[1], sent |-> apiKey]
            IN  /\ isRevising' = TRUE
                /\ previousVersion' = current
                /\ revCalls' = Append(revCalls, call)
                /\ started' = started + 1
                /\ last' = "revise"
                /\ trip' = IF genCalls = << >> /\ revCalls = << >>
                           THEN [phase |-> "requested", base |-> state.results,
                                 accepted |-> FALSE]
                           ELSE [phase |-> "none", base |-> << >>,
                                 accepted |-> FALSE]
    /\ UNCHANGED <<inputs, savedData, state, history, feedbackText,
                   showFeedbackInput, apiKey, now, genCalls, store>>

\* the continuation written with the results and the index of the current
\* state in place of those of its closure
reviseSettledFresh(i, response) ==
    /\ i \in 1..Len(revCalls)
    /\ LET call == revCalls[i]
           out == reviseDocument(call.sent, response)
       IN  /\ IF out.ok
              THEN /\ state' = [state EXCEPT !.results =
                          updateCurrentResult(state.results, state.selectedIndex,
                                              out.value)]
                   /\ feedbackText' = << >>
                   /\ trip' = IF trip.phase = "requested"
                              THEN [trip EXCEPT !.phase = "revised"]
                              ELSE ResetTrip
              ELSE /\ state' = [state EXCEPT !.error =
                          Some(OrElse(out.message, ReviseFallbackMsg))]
                   /\ trip' = ResetTrip
                   /\ UNCHANGED feedbackText
           /\ last' = IF out.ok THEN "reviseResolved" ELSE "reviseRejected"
    /\ isRevising' = FALSE
    /\ revCalls' = RemoveAt(revCalls, i)
    /\ UNCHANGED <<inputs, savedData, history, previousVersion,
                   showFeedbackInput, apiKey, now, genCalls, started, store>>

\* lines 140-147: the continuation of the await, for the outstanding
\* invocation i whose request settled with `response`
reviseSettled(i, response) ==
    /\ i \in 1..Len(revCalls)
    /\ LET call == revCalls[i]
           out == reviseDocument(call.sent, response)
       IN  /\ IF out.ok
              THEN /\ state' = [state EXCEPT !.results =
                          updateCurrentResult(call.results, call.selectedIndex,
                                              out.value)]
                   /\ feedbackText' = << >>
                   /\ trip' = IF trip.phase = "requested"
                              THEN [trip EXCEPT !.phase = "revised"]
                              ELSE ResetTrip
              ELSE /\ state' = [state EXCEPT !.error =
                          Some(OrElse(out.message, ReviseFallbackMsg))]
                   /\ trip' = ResetTrip
                   /\ UNCHANGED feedbackText
           /\ last' = IF out.ok THEN "reviseResolved" ELSE "reviseRejected"
    /\ isRevising' = FALSE
    /\ revCalls' = RemoveAt(revCalls, i)
    /\ UNCHANGED <<inputs, savedData, history, previousVersion,
                   showFeedbackInput, apiKey, now, genCalls, started, store>>

\* accepting written without dropping the snapshot
AcceptKeepsSnapshot ==
    /\ Settled
    /\ ReviewRendered
    /\ showFeedbackInput' = FALSE
    /\ feedbackText' = << >>
    /\ last' = "accept"
    /\ trip' = [phase |-> "none", base |-> << >>, accepted |-> TRUE]
    /\ UNCHANGED <<inputs, savedData, state, history, isRevising,
                   previousVersion, apiKey, now, genCalls, revCalls, started,
                   store>>

\* lines 150-154
handleAcceptRevision ==
    /\ Settled
    /\ ReviewRendered
    /\ previousVersion' = null
    /\ showFeedbackInput' = FALSE
    /\ feedbackText' = << >>
    /\ last' = "accept"
    /\ trip' = [phase |-> "none", base |-> << >>, accepted |-> TRUE]
    /\ UNCHANGED <<inputs, savedData, state, history, isRevising, apiKey, now,
                   genCalls, revCalls, started, store>>

\* lines 156-162; the button is rendered while a snapshot is held, and an
\* attempt made without one is stopped by the guard of line 157
handleDiscardRevision ==
    /\ Settled
    /\ OutputRendered
    /\ IF TruthyText(previousVersion)
       THEN /\ state' = [state EXCEPT !.results =
                   updateCurrentResult(state.results, state.selectedIndex,
                                       previousVersion[1])]
            /\ previousVersion' = null
            /\ feedbackText' = << >>
            /\ trip' = IF trip.phase = "revised"
                       THEN [trip EXCEPT !.phase = "discarded"]
                       ELSE ResetTrip
       ELSE /\ trip' = ResetTrip
            /\ UNCHANGED <<state, previousVersion, feedbackText>>
    /\ last' = "discard"
    /\ UNCHANGED <<inputs, savedData, history, isRevising, showFeedbackInput,
                   apiKey, now, genCalls, revCalls, started, store>>

\* loading written as an update of the fields it names
loadFromHistoryMerges(i) ==
    /\ Settled
    /\ i \in 1..Len(history)
    /\ LET item == history[i] IN
       /\ inputs' = [inputs EXCEPT !.body = item.originalText]
       /\ state' = [state EXCEPT !.results = <<item.generatedText>>,
                                 !.type = Some(item.type)]
       /\ last' = "load"
    /\ previousVersion' = null
    /\ showFeedbackInput' = FALSE
    /\ trip' = ResetTrip
    /\ UNCHANGED <<savedData, history, feedbackText, isRevising, apiKey, now,
                   genCalls, revCalls, started, store>>

\* lines 197-213, for the entry at position i of the sidebar
loadFromHistory(i) ==
    /\ Settled
    /\ i \in 1..Len(history)
    /\ LET item == history[i] IN
       /\ inputs' = [recipientName |-> << >>, recipientRole |-> << >>,
                     subject |-> << >>, body |-> item.originalText]
       /\ state' = [isLoading |-> FALSE, error |-> null,
                    results |-> <<item.generatedText>>, selectedIndex |-> 0,
                    type |-> Some(item.type)]
       /\ last' = "load"
    /\ previousVersion' = null
    /\ showFeedbackInput' = FALSE
    /\ trip' = ResetTrip
    /\ UNCHANGED <<savedData, history, feedbackText, isRevising, apiKey, now,
                   genCalls, revCalls, started, store>>

\* clearing written as a reset of the whole component
clearHistoryResets ==
    /\ Settled
    /\ Len(history) > 0
    /\ history' = << >>
    /\ store' = persistHistory(store, history')
    /\ state' = InitialState
    /\ last' = "clear"
    /\ trip' = ResetTrip
    /\ UNCHANGED <<inputs, savedData, feedbackText, isRevising,
                   previousVersion, showFeedbackInput, apiKey, now, genCalls,
                   revCalls, started>>

\* lines 224-226
clearHistory ==
    /\ Settled
    /\ Len(history) > 0
    /\ history' = << >>
    /\ store' = persistHistory(store, history')
    /\ last' = "clear"
    /\ trip' = ResetTrip
    /\ UNCHANGED <<inputs, savedData, state, feedbackText, isRevising,
                   previousVersion, showFeedbackInput, apiKey, now, genCalls,
                   revCalls, started>>

\* saving written with the untrimmed value looked up in the list
saveItemLooksUpRaw(type, value) ==
    /\ Settled
    /\ IF trim(value) = << >> \/ includes(savedData[type], value)
       THEN /\ last' = "saveIgnored"
            /\ UNCHANGED <<savedData, store>>
       ELSE /\ savedData' = [savedData EXCEPT ![type] = Append(@, trim(value))]
            /\ store' = persistSaved(store, savedData')
            /\ last' = "save"
    /\ trip' = ResetTrip
    /\ UNCHANGED <<inputs, state, history, feedbackText, isRevising,
                   previousVersion, showFeedbackInput, apiKey, now, genCalls,
                   revCalls, started>>

\* lines 79-85
saveItem(type, value) ==
    /\ Settled
    /\ IF trim(value) = << >> \/ includes(savedData[type], trim(value))
       THEN /\ last' = "saveIgnored"
            /\ UNCHANGED <<savedData, store>>
       ELSE /\ savedData' = [savedData EXCEPT ![type] = Append(@, trim(value))]
            /\ store' = persistSaved(store, savedData')
            /\ last' = "save"
    /\ trip' = ResetTrip
    /\ UNCHANGED <<inputs, state, history, feedbackText, isRevising,
                   previousVersion, showFeedbackInput, apiKey, now, genCalls,
                   revCalls, started>>

\* lines 87-92
removeItem(type, value) ==
    /\ Settled
    /\ savedData' = [savedData EXCEPT ![type] = filterNot(@, value)]
    /\ store' = persistSaved(store, savedData')
    /\ last' = "remove"
    /\ trip' = ResetTrip
    /\ UNCHANGED <<inputs, state, history, feedbackText, isRevising,
                   previousVersion, showFeedbackInput, apiKey, now, genCalls,
                   revCalls, started>>

\* lines 43-62 after the first render, which shows the initial values: the
\* first effect reads the two records and sets what it could parse, the two
\* others write the values of that first render
mountEffects ==
    /\ last = "cold"
    /\ LET savedHist == store.nevisandeh_history
           savedUserItems == store.nevisandeh_saved_items
           parsedHist == JSONparse(savedHist[1])
           parsedItems == JSONparse(savedUserItems[1])
           setsHistory == TruthyText(savedHist) /\ parsedHist.ok
           setsSavedData == TruthyText(savedUserItems) /\ parsedItems.ok
       IN  /\ history' = IF setsHistory THEN historyOf(parsedHist.val) ELSE history
           /\ savedData' = IF setsSavedData THEN savedDataOf(parsedItems.val)
                           ELSE savedData
           /\ last' = IF setsHistory \/ setsSavedData THEN "mounted" ELSE "started"
    /\ store' = persistSaved(persistHistory(store, history), savedData)
    /\ UNCHANGED <<inputs, state, feedbackText, isRevising, previousVersion,
                   showFeedbackInput, apiKey, now, genCalls, revCalls, started,
                   trip>>

\* lines 56-62 after the render that shows what the first effect has set
rerender ==
    /\ last = "mounted"
    /\ store' = persistSaved(persistHistory(store, history), savedData)
    /\ last' = "started"
    /\ UNCHANGED <<inputs, savedData, state, history, feedbackText, isRevising,
                   previousVersion, showFeedbackInput, apiKey, now, genCalls,
                   revCalls, started, trip>>

----------------------------------------------------------------------------
(* The component under the conditions of its rendered controls.  `budget`  *)
(* bounds the number of remote operations a behaviour starts, `typed` is   *)
(* what the user types into each field.                                    *)

\* the form, the generate buttons and the sidebar
Drafting(budget, typed) ==
    \/ \E f \in DOMAIN typed : \E v \in typed[f] : handleInputChange(f, v)
    \/ \E t \in DocumentType :
           started < budget /\ GenerateEnabled /\ handleGenerate(t)
    \/ \E i \in 1..Len(genCalls) : \E r \in GenResponses :
           generateSettled(i, r)
    \/ \E i \in 1..Len(history) : loadFromHistory(i)
    \/ clearHistory

\* the output panel
Reviewing(budget) ==
    \/ \E idx \in 0..(Len(state.results) - 1) : selectVariation(idx)
    \/ askForRevision
    \/ closeFeedback
    \/ \E v \in Feedbacks : setFeedbackText(v)
    \/ started < budget /\ ReviseEnabled /\ handleRevise
    \/ \E i \in 1..Len(revCalls) : \E r \in RevResponses :
           reviseSettled(i, r)
    \/ handleAcceptRevision
    \/ handleDiscardRevision

TypedBody == [body |-> Bodies]

Next == Drafting(MaxStarted, TypedBody) \/ Reviewing(MaxStarted)

Spec == Init /\ [][Next]_vars

\* The same component with a smaller budget of remote operations
NextBrief == Drafting(MaxBrief, TypedBody) \/ Reviewing(MaxBrief)

SpecBrief == Init /\ [][NextBrief]_vars

\* The form and the history alone, with more texts typed.  The output panel
\* reads and writes neither inputs, history nor the generation calls.
LongBody == [k \in 1..(SummaryLen + 1) |-> IF k <= SummaryLen THEN "x" ELSE "z"]

TypedForm == [subject |-> {<< >>, <<" ">>, <<"s">>},
              body |-> {<< >>, <<"a">>, LongBody}]

NextForm == Drafting(MaxBrief, TypedForm)

SpecForm == InitFew /\ [][NextForm]_vars

\* The saved lists alone: savedData is read and written by saveItem and
\* removeItem only, with the values of the recipient and subject fields
\* (lines 298, 333).
SavedTexts == {<< >>, <<" ">>, <<"x">>, <<" ", "x", " ">>, <<"y">>}

TypedSaved == [recipientName |-> SavedTexts, subject |-> SavedTexts]

NextSaved ==
    \/ \E f \in DOMAIN TypedSaved : \E v \in TypedSaved[f] : handleInputChange(f, v)
    \/ saveItem("recipients", inputs.recipientName)
    \/ saveItem("subjects", inputs.subject)
    \/ \E type \in {"recipients", "subjects"} : \E v \in SavedTexts :
           removeItem(type, v)

SpecSaved == Init /\ [][NextSaved]_vars

\* The form, the history and the variation tabs, with the three fields
\* typed that loadFromHistory empties (the body is filled by loading)
TypedAll == [recipientName |-> {<< >>, <<"n">>}, recipientRole |-> {<< >>, <<"o">>},
             subject |-> {<< >>, <<"s">>}]

NextLoad ==
    \/ Drafting(MaxBrief, TypedAll)
    \/ \E idx \in 0..(Len(state.results) - 1) : selectVariation(idx)

SpecLoad == Init /\ [][NextLoad]_vars

\* Remote operations overlapping: the user only loads documents from the
\* sidebar, generates and asks for revisions, and up to `budget` operations
\* are started.
Racing(budget) ==
    \/ \E t \in DocumentType :
           started < budget /\ GenerateEnabled /\ handleGenerate(t)
    \/ \E i \in 1..Len(genCalls) : \E r \in GenResponses :
           generateSettled(i, r)
    \/ \E i \in 1..Len(history) : loadFromHistory(i)
    \/ askForRevision
    \/ \E v \in Feedbacks : setFeedbackText(v)
    \/ started < budget /\ ReviseEnabled /\ handleRevise
    \/ \E i \in 1..Len(revCalls) : \E r \in RevResponses :
           reviseSettled(i, r)

NextRace == Racing(MaxRace)

SpecRace == Init /\ [][NextRace]_vars

NextOverlap == Racing(MaxStarted)

SpecOverlap == Init /\ [][NextOverlap]_vars

\* The handlers invoked whatever their controls show: handleGenerate and
\* handleRevise are called with a form and a feedback that disable their
\* buttons as well, and their own tests (lines 95, 134) decide.
TypedDirect == [subject |-> {<<" ">>}, body |-> {<<" ">>, <<"a">>}]

FeedbacksDirect == {<<" ">>, <<"f">>}

ReviseProceeds ==                                                 \* line 134
    TruthyText(getCurrentResult) /\ state.type # null /\ trim(feedbackText) # << >>

NextDirect ==
    \/ \E f \in DOMAIN TypedDirect : \E v \in TypedDirect[f] :
           handleInputChange(f, v)
    \/ \E t \in DocumentType :
           (started < MaxBrief \/ ~isFormValid) /\ handleGenerate(t)
    \/ \E i \in 1..Len(genCalls) : \E r \in GenResponses :
           generateSettled(i, r)
    \/ \E i \in 1..Len(history) : loadFromHistory(i)
    \/ askForRevision
    \/ \E v \in FeedbacksDirect : setFeedbackText(v)
    \/ (started < MaxBrief \/ ~ReviseProceeds) /\ handleRevise
    \/ \E i \in 1..Len(revCalls) : \E r \in RevResponses :
           reviseSettled(i, r)

SpecDirect == InitFew /\ [][NextDirect]_vars

\* The store from the start of a session: what a previous session or
\* another writer left under the two keys, then the startup and the
\* handlers that change the history and the saved lists.
StoredSaved == [recipients |-> << <<"x">> >>, subjects |-> << >>]

\* both records absent, both unparseable, an empty history written with
\* a blank in it, and the records the persist effects write
StoredRecords ==
    {[nevisandeh_history |-> null, nevisandeh_saved_items |-> null],
     [nevisandeh_history |-> Some(<<"[">>),
      nevisandeh_saved_items |-> Some(<<"{">>)],
     [nevisandeh_history |-> Some(<<"[", " ", "]">>),
      nevisandeh_saved_items |-> Some(stringifySaved(StoredSaved))],
     [nevisandeh_history |-> Some(stringifyHistory(StoredHistory(MaxStored))),
      nevisandeh_saved_items |-> Some(stringifySaved(StoredSaved))]}

InitCold ==
    /\ inputs = InitialInputs
    /\ savedData = [recipients |-> << >>, subjects |-> << >>]
    /\ state = InitialState
    /\ history = << >>
    /\ feedbackText = << >>
    /\ isRevising = FALSE
    /\ previousVersion = null
    /\ showFeedbackInput = FALSE
    /\ apiKey = TRUE
    /\ now = StartClock
    /\ genCalls = << >>
    /\ revCalls = << >>
    /\ started = 0
    /\ last = "cold"
    /\ trip = [phase |-> "none", base |-> << >>, accepted |-> FALSE]
    /\ store \in StoredRecords

TypedStore == [recipientName |-> {<<Q, "y">>, <<Backslash>>},
               subject |-> {<<"a", "\n", "b">>}]

NextStore ==
    \/ mountEffects
    \/ rerender
    \/ \E f \in DOMAIN TypedStore : \E v \in TypedStore[f] : handleInputChange(f, v)
    \/ saveItem("recipients", inputs.recipientName)
    \/ saveItem("subjects", inputs.subject)
    \/ \E type \in {"recipients", "subjects"} :
           \E v \in TypedStore.recipientName \cup TypedStore.subject :
               removeItem(type, v)
    \/ \E t \in DocumentType :
           started < MaxBrief /\ GenerateEnabled /\ handleGenerate(t)
    \/ \E i \in 1..Len(genCalls) : \E r \in GenResponses :
           generateSettled(i, r)
    \/ clearHistory

SpecStore == InitCold /\ [][NextStore]_vars

\* One generation alone, with every response the request can settle with:
\* a rejection, an absent text, every text of at most MaxText characters of
\* brackets, quotes and spaces, and some longer texts.
Alphabet == {"[", "]", Q, " "}

RECURSIVE TextsUpTo(_)
TextsUpTo(n) ==
    IF n = 0 THEN {<< >>}
    ELSE LET shorter == TextsUpTo(n - 1) IN
         shorter \cup {Append(t, c) : t \in shorter, c \in Alphabet}

LongTexts ==
    { TwoTexts,
      <<"[", Q, Q, "]">>,                                    \* [""]
      <<"[", Q, "a", Q, "]">>,                               \* ["a"]
      <<"[", "[", "]", "]">>,                                \* [[]]
      <<" ", "[", " ", Q, "a", Q, " ", ",", Q, "b", Q, "]", "\n">>,
      <<"[", Q, "a", Q, ",", Q, "b", Q, ",", Q, "c", Q, "]">>,
      <<"[", ",", "]">>,                                     \* [,]
      <<"[", Q, "a", Q, ",", "]">>,                          \* ["a",]
      <<"[", Q, "a", Q, "]", "]">>,                          \* ["a"]]
      <<"[", Q, "a", Q, Q, "b", Q, "]">>,                    \* ["a""b"]
      <<"[", Q, "a", "]">>,                                  \* ["a]
      <<"[", Q, "a", "\n", Q, "]">>,                         \* a raw newline
      <<"a">>,
      <<"7">>,
      <<"{", "}">>,
      <<Q, "a", Q>>,                                         \* "a"
      <<"h", "e", "l", "l", "o">> }

AnyResponses ==
    {Reject(""), Reject("NET"), Resolve(null)}
        \cup {Resolve(Some(t)) : t \in TextsUpTo(MaxText) \cup LongTexts}

NextParse ==
    \/ \E v \in Bodies : handleInputChange("body", v)
    \/ \E t \in DocumentType :
           started = 0 /\ GenerateEnabled /\ handleGenerate(t)
    \/ \E i \in 1..Len(genCalls) : \E r \in AnyResponses :
           generateSettled(i, r)

SpecParse == Init /\ [][NextParse]_vars

----------------------------------------------------------------------------
(* Claims *)

IsLoading(st) == st.isLoading /\ st.error = null /\ st.results = << >>

IsReady(st, type) ==
    /\ ~st.isLoading
    /\ Len(st.results) > 0
    /\ st.error = null
    /\ st.selectedIndex = 0
    /\ st.type = <<type>>

IsFailed(st) ==
    /\ ~st.isLoading
    /\ st.results = << >>
    /\ st.error # null
    /\ st.type = null

C1_Step ==
    /\ last' = "generate" =>
           \A t \in DocumentType :
               (handleGenerate(t) /\ isFormValid) => IsLoading(state')
    /\ last' \in {"generateResolved", "generateRejected"} =>
           \A i \in 1..Len(genCalls) : \A r \in GenResponses :
               generateSettled(i, r) =>
                   /\ IsReady(state', genCalls[i].type) \/ IsFailed(state')
                   /\ ~(IsReady(state', genCalls[i].type) /\ IsFailed(state'))

\* C1: a generate started with a non-blank body or subject first writes the
\* loading state (isLoading, no error, no results), and the completion of
\* its call writes exactly one of Ready (not loading, results non-empty, no
\* error, selectedIndex 0, the requested type) and Failed (not loading, no
\* results, an error, no type), never a mix of the two.
C1_GenerateOutcome == [][C1_Step]_vars

C1_Witness == last = "generateResolved" /\ Len(state.results) = 2 /\ genCalls = << >>

\* C2: whenever results is non-empty, selectedIndex is one of its positions.
C2_SelectedIndexValid ==
    Len(state.results) > 0 =>
        (0 <= state.selectedIndex /\ state.selectedIndex < Len(state.results))

\* C3: after a revision succeeded and was then discarded, with at most
\* selectVariation in between, every entry of results is what it was just
\* before the revision was requested.
C3_DiscardRestores == trip.phase = "discarded" => state.results = trip.base

C4_Step ==
    /\ (last' = "accept" /\ handleAcceptRevision) =>
           previousVersion' = null /\ state'.results = state.results
    /\ (last' = "discard" /\ trip.accepted /\ handleDiscardRevision) =>
           /\ state'.results = state.results
           /\ state'.selectedIndex = state.selectedIndex
           /\ previousVersion' = previousVersion

\* C4: acceptRevision clears previousVersion and leaves results as they
\* are; a discardRevision after it, with no revision started in between,
\* changes nothing in results, selectedIndex or previousVersion.
C4_AcceptIsPermanent == [][C4_Step]_vars

C4_Witness == trip.accepted /\ last = "discard" /\ state.results = << <<"r">> >>

\* C5: at most one generation call is outstanding at any time.
C5_OneGeneration == Len(genCalls) <= 1

C6_Step ==
    last' = "reviseResolved" =>
    \A i \in 1..Len(revCalls) : \A r \in RevResponses :
        (reviseSettled(i, r) /\ reviseDocument(revCalls[i].sent, r).ok) =>
            /\ Len(state'.results) = Len(state.results)
            /\ \A k \in 1..Len(state.results) :
                   k # state.selectedIndex + 1 => state'.results[k] = state.results[k]
            /\ state.selectedIndex < Len(state.results)
            /\ state'.results[state.selectedIndex + 1] = r.text[1]
            /\ feedbackText' = << >>
            /\ isRevising' = FALSE
            /\ previousVersion' = <<revCalls[i].current>>

\* C6: the successful completion of a revision changes results only at
\* selectedIndex, which then holds the revised text; feedbackText is empty,
\* isRevising is false and previousVersion is the text that was selected
\* when the revision was requested.
C6_ReviseSuccess == [][C6_Step]_vars

C7_Step ==
    last' = "reviseRejected" =>
    \A i \in 1..Len(revCalls) : \A r \in RevResponses :
        (reviseSettled(i, r) /\ ~reviseDocument(revCalls[i].sent, r).ok) =>
            /\ state'.error # null
            /\ isRevising' = FALSE
            /\ state'.results = state.results
            /\ state'.selectedIndex = state.selectedIndex
            /\ state'.type = state.type
            /\ previousVersion' = <<revCalls[i].current>>

\* C7: the failure of a revision sets error, clears isRevising, leaves
\* results, selectedIndex and type as they are, and previousVersion is still
\* the snapshot taken when the revision was requested.
C7_ReviseFailure == [][C7_Step]_vars

NewestFirst(h) ==
    \A i \in 1..(Len(h) - 1) : h[i].timestamp >= h[i + 1].timestamp

C8_Step ==
    /\ Len(history') <= 10
    /\ NewestFirst(history')
    /\ (last' = "generateResolved" /\ Len(history) = 10) =>
           /\ Len(history') = 10
           /\ \A k \in 1..9 : history'[k + 1] = history[k]

\* C8: from a history of at most 10 items, newest first, every step leaves
\* at most 10 items, newest first; a successful generation on a history of
\* 10 items drops exactly the oldest item and keeps the other 9 in order
\* behind the new one.
C8_HistoryCapped == [][C8_Step]_vars

C8_Witness ==
    /\ last = "generateResolved"
    /\ Len(history) = 10
    /\ history[10].timestamp = 2
    /\ history[1].timestamp > history[2].timestamp

ExpectedSummary(inp) ==
    IF Len(inp.subject) > 0 THEN inp.subject
    ELSE SubSeq(inp.body, 1, Min(50, Len(inp.body))) \o <<".", ".", ".">>

C9_Step ==
    last' \in {"generateResolved", "generateRejected"} =>
    \A i \in 1..Len(genCalls) : \A r \in GenResponses :
        generateSettled(i, r) =>
            IF last' = "generateResolved"
            THEN /\ Len(history') = Min(Len(history) + 1, 10)
                 /\ \A k \in 2..Len(history') : history'[k] = history[k - 1]
                 /\ history'[1].generatedText = state'.results[1]
                 /\ history'[1].type = genCalls[i].type
                 /\ history'[1].originalText = ExpectedSummary(genCalls[i].inputs)
            ELSE history' = history

\* C9: a generation call that completes successfully prepends exactly one
\* item whose generatedText is the first returned variation, whose type is
\* the requested type and whose originalText is the subject captured at the
\* invocation when that subject is non-empty, otherwise the first 50
\* characters of the captured body followed by "..."; a generation call
\* that fails leaves the history as it is.
C9_HistoryItem == [][C9_Step]_vars

C9_Witness ==
    /\ last = "generateResolved"
    /\ Len(history) = 1
    /\ Len(history[1].originalText) = 53
    /\ history[1].originalText[50] = "x"
    /\ history[1].originalText[51] = "."

SavedListClean(list) ==
    /\ \A i \in 1..Len(list) : \A j \in 1..Len(list) : i # j => list[i] # list[j]
    /\ \A i \in 1..Len(list) : trim(list[i]) # << >> /\ trim(list[i]) = list[i]

C10_Clause(type, value) ==
    (last' \in {"save", "saveIgnored"} /\ saveItem(type, value)) =>
        IF trim(value) = << >> \/ \E k \in 1..Len(savedData[type]) :
                                     savedData[type][k] = trim(value)
        THEN savedData' = savedData
        ELSE savedData'[type] = Append(savedData[type], trim(value))

C10_Step ==
    /\ SavedListClean(savedData'.recipients)
    /\ SavedListClean(savedData'.subjects)
    /\ C10_Clause("recipients", inputs.recipientName)
    /\ C10_Clause("subjects", inputs.subject)

\* C10: from empty lists, every saved list holds no duplicate, no blank
\* entry and only trimmed values after every step; saveItem with a value
\* that is blank after trimming, or whose trimmed form is already in the
\* list, leaves the lists as they are, and otherwise appends the trimmed
\* value.
C10_SavedLists == [][C10_Step]_vars

C10_Witness ==
    /\ last = "saveIgnored"
    /\ inputs.recipientName = <<"x">>
    /\ savedData.recipients = << <<"x">> >>
    /\ savedData.subjects = << <<"x">>, <<"y">> >>

C11_Step ==
    /\ last' = "generate" =>
           \A i \in 1..Len(genCalls') : genCalls'[i].sent = apiKey
    /\ last' = "revise" =>
           \A i \in 1..Len(revCalls') : revCalls'[i].sent = apiKey
    /\ (~apiKey /\ last = "generate") =>
           /\ last' = "generateRejected"
           /\ state' = [isLoading |-> FALSE, error |-> <<NoKeyMsg>>,
                        results |-> << >>, selectedIndex |-> 0, type |-> null]
           /\ genCalls' = << >>
    /\ (~apiKey /\ last = "revise") =>
           /\ last' = "reviseRejected"
           /\ state'.error = <<NoKeyMsg>>
           /\ revCalls' = << >>

\* C11: without a configured credential no generation and no revision call
\* is ever sent as a request; the step that follows the start of either is
\* its failure with the message NoKeyMsg, and for a generation the state
\* after it is not loading, with exactly that message in error, no results
\* and no type.
C11_NoCredential == [][C11_Step]_vars

C11_Witness ==
    /\ ~apiKey
    /\ last = "reviseRejected"
    /\ state.error = <<NoKeyMsg>>
    /\ Len(state.results) = 1

\* what the claim says generateDocument gives for a resolved response
C12_Expected(r, st) ==
    IF r.text = null \/ r.text[1] = << >>
    THEN st.results = << >> /\ st.error = <<NoResponseMsg>>
    ELSE LET decoded == JSONparse(r.text[1]) IN
         IF decoded.ok /\ decoded.isArray /\ decoded.val # << >>
         THEN st.results = decoded.val /\ st.error = null
         ELSE st.results = <<r.text[1]>> /\ st.error = null

C12_Step ==
    last' \in {"generateResolved", "generateRejected"} =>
        /\ last' = "generateResolved" => state'.results # << >>
        /\ \A i \in 1..Len(genCalls) : \A r \in AnyResponses :
               (genCalls[i].sent /\ r.kind = "resolve" /\ ~C12_Expected(r, state'))
                   => ~generateSettled(i, r)

\* C12: for every response a sent generation request resolves with, the
\* results are the decoded array when the text is valid JSON decoding to a
\* non-empty array, the one-element sequence holding the raw text when the
\* text is present but is not valid JSON, not an array or an empty array,
\* and the call fails with NoResponseMsg when the text is absent or empty;
\* the results of a successful generation are never empty.
C12_ResponseDecoding == [][C12_Step]_vars

C12_Witness ==
    /\ last = "generateResolved"
    /\ state.results = << <<"[", " ", "]">> >>

C13_Step ==
    last' = "load" =>
        /\ \E i \in 1..Len(history) :
               /\ inputs' = [recipientName |-> << >>, recipientRole |-> << >>,
                             subject |-> << >>, body |-> history[i].originalText]
               /\ state' = [isLoading |-> FALSE, error |-> null,
                            results |-> <<history[i].generatedText>>,
                            selectedIndex |-> 0, type |-> <<history[i].type>>]
        /\ history' = history
        /\ savedData' = savedData

\* C13: immediately after loadFromHistory(item), from any state, the inputs
\* are an empty recipientName, recipientRole and subject with the body set
\* to item.originalText, the generation state is not loading, without
\* error, with results = [item.generatedText], selectedIndex 0 and the type
\* of the item; the history and the saved lists are unchanged.
C13_LoadFromHistory == [][C13_Step]_vars

C13_Witness ==
    /\ last = "load"
    /\ Len(genCalls) = 1
    /\ genCalls[1].inputs.recipientName = <<"n">>
    /\ genCalls[1].inputs.subject = <<"s">>
    /\ genCalls[1].type = MINUTES
    /\ inputs = [recipientName |-> << >>, recipientRole |-> << >>,
                 subject |-> << >>, body |-> <<"s">>]
    /\ state.type = <<LETTER>>

\* C14: immediately after loadFromHistory, from any state, the revision
\* working set is reset: previousVersion is absent, feedbackText is empty
\* and the feedback input is hidden.
C14_LoadClearsRevision ==
    last = "load" =>
        /\ previousVersion = null
        /\ feedbackText = << >>
        /\ ~showFeedbackInput

\* C15: in every reachable state with isLoading = TRUE, results is empty,
\* error is null and previousVersion is absent.
C15_LoadingIsClean ==
    state.isLoading =>
        /\ state.results = << >>
        /\ state.error = null
        /\ previousVersion = null

C16_Step ==
    last' = "reviseResolved" =>
        \E i \in 1..Len(revCalls) :
            /\ revCalls' = SubSeq(revCalls, 1, i - 1)
                               \o SubSeq(revCalls, i + 1, Len(revCalls))
            /\ Len(state'.results) = Len(revCalls[i].results)
            /\ \A k \in 1..Len(state'.results) :
                   IF k = revCalls[i].selectedIndex + 1
                   THEN \E r \in RevResponses :
                            r.kind = "resolve" /\ state'.results[k] = r.text[1]
                   ELSE state'.results[k] = revCalls[i].results[k]

\* C16: the successful completion of a revision call replaces results by
\* the results captured when that revision was requested, with the entry
\* captured as selected holding the revised text, whatever the state has
\* become since; in particular after loadFromHistory(item) ran during the
\* call, results = [item.generatedText] is overwritten.
C16_StaleRevisionApplied == [][C16_Step]_vars

\* a revision requested on the two variations of a MINUTES generation has
\* completed after a stored LETTER item was loaded
C16_Witness ==
    /\ last = "reviseResolved"
    /\ state.results = << <<"r">>, <<"b">> >>
    /\ state.type = <<LETTER>>
    /\ started = 2
    /\ Len(history) > 1
    /\ history[1].type = MINUTES
    /\ previousVersion = null

\* C17: at most one revision call is outstanding at any time.
C17_OneRevision == Len(revCalls) <= 1

C18_Step ==
    /\ last' = "generateIgnored" =>
           /\ trim(inputs.body) = << >> /\ trim(inputs.subject) = << >>
           /\ genCalls' = genCalls
           /\ state' = state
           /\ previousVersion' = previousVersion
           /\ feedbackText' = feedbackText
           /\ history' = history
           /\ savedData' = savedData
    /\ last' = "generate" =>
           trim(inputs.body) # << >> \/ trim(inputs.subject) # << >>

\* C18: handleGenerate invoked while body and subject are both blank after
\* trimming starts no call and leaves the generation state, previousVersion,
\* feedbackText, the history and the saved lists as they are; it starts a
\* call only when one of the two is not blank.
C18_BlankGenerateIgnored == [][C18_Step]_vars

C18_Witness ==
    /\ last = "generateIgnored"
    /\ inputs.body = <<" ">>
    /\ inputs.subject = <<" ">>
    /\ previousVersion = << <<"a">> >>
    /\ feedbackText = <<"f">>
    /\ state.error # null

\* the three conditions of the claim on the state a revision is asked in
C19_Allowed ==
    /\ state.results # << >>
    /\ state.selectedIndex < Len(state.results)
    /\ state.results[state.selectedIndex + 1] # << >>
    /\ state.type # null
    /\ \E k \in 1..Len(feedbackText) : feedbackText[k] \notin WhiteSpace

C19_Step ==
    /\ last' = "revise" =>
           /\ C19_Allowed
           /\ Len(revCalls') = Len(revCalls) + 1
    /\ last' = "reviseIgnored" =>
           /\ ~C19_Allowed
           /\ revCalls' = revCalls
           /\ previousVersion' = previousVersion
           /\ isRevising' = isRevising
           /\ state' = state

\* C19: handleRevise starts a revision call only when the selected result
\* is non-empty, the type is known and feedbackText is not blank after
\* trimming; when one of the three fails it starts no call and leaves
\* previousVersion, isRevising, results and error as they are.
C19_ReviseGuard == [][C19_Step]_vars

C19_Witness ==
    /\ last = "reviseIgnored"
    /\ state.results = << <<"a">> >>
    /\ state.type = <<LETTER>>
    /\ feedbackText = <<" ">>
    /\ showFeedbackInput

C20_Step ==
    last' = "select" =>
        /\ state'.selectedIndex \in 0..(Len(state.results) - 1)
        /\ state'.results = state.results
        /\ state'.type = state.type
        /\ state'.error = state.error
        /\ state'.isLoading = state.isLoading
        /\ previousVersion' = previousVersion
        /\ feedbackText' = feedbackText
        /\ history' = history
        /\ savedData' = savedData

\* C20: selectVariation changes only selectedIndex: results, type, error,
\* isLoading, previousVersion, feedbackText, the history and the saved
\* lists are unchanged, and the index it sets is one of the positions of
\* the current results.
C20_SelectOnlyIndex == [][C20_Step]_vars

C20_Witness ==
    /\ last = "select"
    /\ state.selectedIndex = 1
    /\ Len(state.results) = 2
    /\ feedbackText = <<"f">>
    /\ showFeedbackInput

C21_Step ==
    last' = "clear" =>
        /\ history' = << >>
        /\ state' = state
        /\ inputs' = inputs
        /\ previousVersion' = previousVersion
        /\ feedbackText' = feedbackText
        /\ isRevising' = isRevising
        /\ savedData' = savedData

\* C21: clearHistory empties the history and leaves the generation state
\* (results, selectedIndex, type, error, isLoading), the inputs, the
\* revision working set (previousVersion, feedbackText, isRevising) and the
\* saved lists unchanged.
C21_ClearHistory == [][C21_Step]_vars

C21_Witness ==
    /\ last = "clear"
    /\ history = << >>
    /\ state.results = << <<"a">> >>
    /\ previousVersion = << <<"a">> >>
    /\ feedbackText = <<"f">>
    /\ isRevising
    /\ inputs.body = <<"s">>

\* C22: the ids of the items in the history are pairwise distinct in every
\* reachable state.
C22_DistinctIds ==
    \A i \in 1..Len(history) : \A j \in 1..Len(history) :
        i # j => history[i].id # history[j].id

\* the history and the saved lists a reader of the store finds
C23_StoredHistory(st) ==
    LET r == JSONparse(st.nevisandeh_history[1]) IN
    IF st.nevisandeh_history # null /\ r.ok /\ r.kind = "array"
    THEN <<historyOf(r.val)>> ELSE null

C23_StoredSaved(st) ==
    LET r == JSONparse(st.nevisandeh_saved_items[1]) IN
    IF st.nevisandeh_saved_items # null /\ r.ok /\ r.kind = "object"
    THEN <<savedDataOf(r.val)>> ELSE null

C23_Decodes ==
    last \notin {"cold", "mounted"} =>
        /\ C23_StoredHistory(store) = <<history>>
        /\ C23_StoredSaved(store) = <<savedData>>

C23_Step ==
    last \notin {"cold", "mounted"} =>
        /\ history' = history =>
               store'.nevisandeh_history = store.nevisandeh_history
        /\ savedData' = savedData =>
               store'.nevisandeh_saved_items = store.nevisandeh_saved_items

\* C23: once the startup has read the store and its effects have run, in
\* every state the record stored under the history key decodes to the
\* in-memory history and the record stored under the saved-items key decodes
\* to the in-memory saved lists; a step that leaves the history unchanged
\* leaves its record unchanged, and the same for the saved lists.
C23_StoreFollowsState == []C23_Decodes /\ [][C23_Step]_vars

C23_Witness ==
    /\ last = "generateResolved"
    /\ Len(history) = 3
    /\ history[1].originalText = <<"a", "\n", "b">>
    /\ history[3].timestamp = 1
    /\ savedData.recipients = << <<"x">>, <<Q, "y">>, <<Backslash>> >>
    /\ C23_StoredHistory(store) = <<history>>
    /\ C23_StoredSaved(store) = <<savedData>>

\* C24: in every reachable state, when results is non-empty the document
\* type is non-null.
C24_TypedResults == state.results # << >> => state.type # null

====
